---- MODULE Spec2Model ----
(***************************************************************************)
(* SARSA(lambda) with tile coding, MountainCar-v0 notebook.                *)
(*                                                                         *)
(* TileCoder (codebook, get_feature, __call__), SARSAAgent (encode, get_q, *)
(* decide, learn), SARSALambdaAgent (z, learn) and the episode loop        *)
(* play_sarsa, as a state machine.                                         *)
(*                                                                         *)
(* Numbers.  The program computes in IEEE doubles.  Here a real number x   *)
(* is the integer x * One (fixed point with One steps per unit); sums are  *)
(* exact, and a product is rounded to the nearest step, ties to even, as   *)
(* IEEE rounds.  At this width 1.0 halves to 0 after a few decays, the way *)
(* a double underflows after 1074 of them.                                 *)
(***************************************************************************)
EXTENDS Integers, Sequences, FiniteSets, TLC

VARIABLES
    codebook,       \* TileCoder.codebook: codeword -> feature
    w,              \* SARSAAgent.w
    z,              \* SARSALambdaAgent.z
    gamma,          \* SARSAAgent.gamma
    lambd,          \* SARSALambdaAgent.lambd
    learning_rate,  \* SARSAAgent.learning_rate
    epsilon,        \* SARSAAgent.epsilon
    call,           \* the last call made on the agent: its arguments and result
    order,          \* the codewords of the codebook in the order of insertion
    learns,         \* the number of learn calls made so far
    pc,             \* play_sarsa: where the loop stands
    train,          \* play_sarsa: its train argument
    observation,    \* play_sarsa locals
    action,
    reward,
    observation_next,
    done,
    action_next,
    sarsa_codebook, \* a SARSAAgent run beside the agent: its TileCoder.codebook
    sarsa_w         \* and its w

agent_vars == <<codebook, w, z>>
sarsa_vars == <<sarsa_codebook, sarsa_w>>
config_vars == <<gamma, lambd, learning_rate, epsilon>>
play_vars == <<pc, train, observation, action, reward, observation_next, done,
               action_next>>
vars == <<codebook, w, z, gamma, lambd, learning_rate, epsilon, call, order,
          learns, pc,
          train, observation, action, reward, observation_next, done,
          action_next, sarsa_codebook, sarsa_w>>

(***************************************************************************)
(* Size of the instance.                                                   *)
(***************************************************************************)
\* TileCoder(layers, features): number of tilings, capacity of the codebook
layers == 2
features == 3
\* env.action_space.n
action_n == 2
\* fixed-point steps per unit
One == 4
\* the number of learn calls explored
MaxLearns == 2
\* env.observation_space.low and .high, the same in every dimension (in units)
obs_low == -1
obs_high == 1
\* Python's None, as passed for action_next; no action id equals it
None == -1

Half == One \div 2

Actions == 0 .. (action_n - 1)

\* observations the environment returns: (position, velocity) within the bounds
Observations ==
    { <<obs_low * One, obs_low * One>>,
      <<obs_low * One + Half, obs_low * One>> }

Rewards == {0 - One, One}

\* np.random.rand() draws from [0, 1): the least and the greatest draw
RandValues == {0, One - 1}

(***************************************************************************)
(* Arithmetic.                                                             *)
(***************************************************************************)
\* n / d for d > 0, rounded to the nearest integer, ties to even
RoundDiv(n, d) ==
    LET q == n \div d
        r == n % d
    IN  IF 2 * r < d THEN q
        ELSE IF 2 * r > d THEN q + 1
        ELSE IF q % 2 = 0 THEN q ELSE q + 1

\* the product of two fixed-point numbers
Mul(a, b) == RoundDiv(a * b, One)

\* the quotient of two fixed-point numbers, d > 0
Div(n, d) == RoundDiv(n * One, d)

\* Python's int(n / d) for d > 0: truncation toward zero
TruncDiv(n, d) == IF n >= 0 THEN n \div d ELSE 0 - ((0 - n) \div d)

\* the sum of the entries of a sequence of numbers
RECURSIVE SeqSum(_)
SeqSum(s) == IF s = <<>> THEN 0 ELSE s[1] + SeqSum(Tail(s))

(***************************************************************************)
(* TileCoder.                                                              *)
(***************************************************************************)
\* Python's hash of a tuple of small ints, at reduced width: an order-sensitive
\* mix of the items, wrapped to a signed word (so it may be negative).
\* hash(None) is a fixed value of the process.
RECURSIVE hash_acc(_, _)
hash_acc(t, acc) ==
    IF t = <<>> THEN acc
    ELSE LET item == IF t[1] = None THEN 11 ELSE t[1]
             x == (acc * 5 + item + 3) % 64
         IN  hash_acc(Tail(t), x)

hash(codeword) == hash_acc(codeword, 7) - 32

\* Fault: get_feature without the capacity test, inserting always.
get_feature_uncapped(cb, codeword) ==
    IF codeword \in DOMAIN cb
    THEN [codebook |-> cb, feature |-> cb[codeword]]
    ELSE [codebook |-> cb @@ (codeword :> Cardinality(DOMAIN cb)),
          feature |-> Cardinality(DOMAIN cb) % features]

\* Fault: get_feature storing the hashed index instead of the count.
get_feature_hashed(cb, codeword) ==
    IF codeword \in DOMAIN cb
    THEN [codebook |-> cb, feature |-> cb[codeword]]
    ELSE IF Cardinality(DOMAIN cb) >= features
         THEN [codebook |-> cb, feature |-> hash(codeword) % features]
         ELSE [codebook |-> cb @@ (codeword :> hash(codeword) % features),
               feature |-> hash(codeword) % features]

\* Fault: the lookup testing the stored index for truth, so that the entry
\* with index 0 is taken for a missing one and is assigned again.
get_feature_falsy_zero(cb, codeword) ==
    IF codeword \in DOMAIN cb /\ cb[codeword] # 0
    THEN [codebook |-> cb, feature |-> cb[codeword]]
    ELSE LET count == Cardinality(DOMAIN cb)
         IN  IF count >= features
             THEN [codebook |-> cb, feature |-> hash(codeword) % features]
             ELSE [codebook |->
                       [cw \in DOMAIN cb \cup {codeword} |->
                           IF cw = codeword THEN count ELSE cb[cw]],
                   feature |-> count]

\* Fault: a full codebook remembering the hashed index of a new codeword.
get_feature_store_hashed(cb, codeword) ==
    IF codeword \in DOMAIN cb
    THEN [codebook |-> cb, feature |-> cb[codeword]]
    ELSE LET count == Cardinality(DOMAIN cb)
         IN  IF count >= features
             THEN [codebook |-> cb @@ (codeword :> hash(codeword) % features),
                   feature |-> hash(codeword) % features]
             ELSE [codebook |-> cb @@ (codeword :> count), feature |-> count]

\* Fault: the index of a new entry taken one below the count.
get_feature_off_by_one(cb, codeword) ==
    IF codeword \in DOMAIN cb
    THEN [codebook |-> cb, feature |-> cb[codeword]]
    ELSE LET count == Cardinality(DOMAIN cb)
             index == IF count > 0 THEN count - 1 ELSE 0
         IN  IF count >= features
             THEN [codebook |-> cb, feature |-> hash(codeword) % features]
             ELSE [codebook |-> cb @@ (codeword :> index), feature |-> index]

\* TileCoder.get_feature on codebook cb: the codebook after the call and the
\* feature returned
get_feature(cb, codeword) ==
    IF codeword \in DOMAIN cb
    THEN [codebook |-> cb, feature |-> cb[codeword]]
    ELSE LET count == Cardinality(DOMAIN cb)
         IN  IF count >= features
             THEN [codebook |-> cb, feature |-> hash(codeword) % features]
             ELSE [codebook |-> cb @@ (codeword :> count), feature |-> count]

\* Fault: the quotient rounded to the nearest integer instead of truncated.
codeword_of_rounded(layer, floats, ints) ==
    LET dim == Len(floats)
        scaled_floats == [i \in 1 .. dim |-> floats[i] * layers * layers]
    IN  <<layer>>
        \o [i \in 1 .. dim |->
              RoundDiv(scaled_floats[i] + (1 + dim * (i - 1)) * layer * One,
                       layers * One)]
        \o ints

\* the codeword of one layer: floats are fixed-point numbers in [0, One]
codeword_of(layer, floats, ints) ==
    LET dim == Len(floats)
        scaled_floats == [i \in 1 .. dim |-> floats[i] * layers * layers]
    IN  <<layer>>
        \o [i \in 1 .. dim |->
              TruncDiv(scaled_floats[i] + (1 + dim * (i - 1)) * layer * One,
                       layers * One)]
        \o ints

\* the loop of TileCoder.__call__ from layer on: acc holds the codebook so
\* far, the features appended and the codewords looked up
RECURSIVE tile_loop(_, _, _, _)
tile_loop(layer, floats, ints, acc) ==
    IF layer >= layers THEN acc
    ELSE LET codeword == codeword_of(layer, floats, ints)
             r == get_feature(acc.codebook, codeword)
         IN  tile_loop(layer + 1, floats, ints,
                       [codebook |-> r.codebook,
                        features |-> Append(acc.features, r.feature),
                        codewords |-> Append(acc.codewords, codeword)])

\* Fault: the loop over the layers starting at layer 1.
tile_call_skip_first(cb, floats, ints) ==
    tile_loop(1, floats, ints,
              [codebook |-> cb, features |-> <<>>, codewords |-> <<>>])

\* TileCoder.__call__(floats, ints) on codebook cb
tile_call(cb, floats, ints) ==
    tile_loop(0, floats, ints,
              [codebook |-> cb, features |-> <<>>, codewords |-> <<>>])

(***************************************************************************)
(* SARSAAgent and SARSALambdaAgent.                                        *)
(***************************************************************************)
Features == 0 .. (features - 1)

\* np.zeros(features)
zeros == [i \in Features |-> 0]

\* env.observation_space.high - env.observation_space.low
obs_scale == (obs_high - obs_low) * One

\* the set of the entries of a sequence
Range(s) == {s[j] : j \in 1 .. Len(s)}

\* (observation - self.obs_low) / self.obs_scale
normalize(obs) ==
    [i \in 1 .. Len(obs) |-> Div(obs[i] - obs_low * One, obs_scale)]

\* SARSAAgent.encode on codebook cb
encode(cb, obs, act) ==
    LET states == normalize(obs)
        actions == <<act>>
    IN  tile_call(cb, states, actions)

\* the sum of wv over a set of features
RECURSIVE set_sum(_, _)
set_sum(wv, fs) ==
    IF fs = {} THEN 0
    ELSE LET i == CHOOSE j \in fs : TRUE
         IN  wv[i] + set_sum(wv, fs \ {i})

\* Fault: the sum taken over the set of the features, a repeated one once.
w_sum_distinct(wv, feats) == set_sum(wv, Range(feats))

\* self.w[features].sum(): a feature listed m times is added m times
w_sum(wv, feats) == SeqSum([j \in 1 .. Len(feats) |-> wv[feats[j]]])

\* SARSAAgent.get_q on codebook cb and weights wv
get_q(cb, wv, obs, act) ==
    LET e == encode(cb, obs, act)
    IN  [codebook |-> e.codebook, q |-> w_sum(wv, e.features),
         features |-> e.features, codewords |-> e.codewords]

\* the list comprehension of decide: get_q for action, action + 1, ...
RECURSIVE qs_loop(_, _, _, _)
qs_loop(act, obs, wv, acc) ==
    IF act >= action_n THEN acc
    ELSE LET r == get_q(acc.codebook, wv, obs, act)
         IN  qs_loop(act + 1, obs, wv,
                     [codebook |-> r.codebook, qs |-> Append(acc.qs, r.q),
                      codewords |-> acc.codewords \o r.codewords])

\* np.argmax scans the list and keeps the first maximum it meets: best is
\* the position of the greatest entry before position i
RECURSIVE argmax_scan(_, _, _)
argmax_scan(qs, i, best) ==
    IF i > Len(qs) THEN best
    ELSE argmax_scan(qs, i + 1, IF qs[i] > qs[best] THEN i ELSE best)

\* Fault: the last maximum instead of the first.
RECURSIVE argmax_last_scan(_, _, _)
argmax_last_scan(qs, i, best) ==
    IF i > Len(qs) THEN best
    ELSE argmax_last_scan(qs, i + 1, IF qs[i] >= qs[best] THEN i ELSE best)

argmax_last(qs) == argmax_last_scan(qs, 2, 1) - 1

\* np.argmax(qs), an index from 0
argmax(qs) == argmax_scan(qs, 2, 1) - 1

\* SARSAAgent.decide with rand the value np.random.rand() returned and
\* randint the value np.random.randint(action_n) would return
decide(cb, wv, obs, rand, randint) ==
    IF rand < epsilon
    THEN [codebook |-> cb, action |-> randint, explored |-> TRUE,
          codewords |-> <<>>]
    ELSE LET r == qs_loop(0, obs, wv,
                          [codebook |-> cb, qs |-> <<>>, codewords |-> <<>>])
         IN  [codebook |-> r.codebook, action |-> argmax(r.qs),
              explored |-> FALSE, codewords |-> r.codewords]

\* u = reward, and if not done: u += gamma * get_q(observation_next, action_next)
td_target(rew, dn, q_next) ==
    IF dn THEN rew ELSE rew + Mul(gamma, q_next)

\* Fault: the decay subtracted instead of multiplied.
trace_decay_subtract(zv) ==
    [i \in Features |-> zv[i] - Mul(gamma, lambd)]

\* self.z *= (self.gamma * self.lambd)
trace_decay(zv) ==
    [i \in Features |-> Mul(zv[i], Mul(gamma, lambd))]

\* Fault: accumulating traces, the active features incremented by 1.
trace_accumulate(zv, feats) ==
    [i \in Features |-> IF i \in Range(feats) THEN zv[i] + One ELSE zv[i]]

\* self.z[features] = 1.
trace_replace(zv, feats) ==
    [i \in Features |-> IF i \in Range(feats) THEN One ELSE zv[i]]

\* Fault: the update applied to the features of trace 1 only, a decayed
\* trace counting for nothing.
weights_update_active(wv, delta, zv) ==
    [i \in Features |->
        IF zv[i] = One THEN wv[i] + Mul(learning_rate, delta) ELSE wv[i]]

\* self.w += (self.learning_rate * delta * self.z)
weights_update(wv, delta, zv) ==
    [i \in Features |-> wv[i] + Mul(Mul(learning_rate, delta), zv[i])]

\* Fault: the trace kept at the end of the episode.
trace_reset_skipped(zv, dn) == zv

\* if done: self.z = np.zeros_like(self.z)
trace_reset(zv, dn) ==
    IF dn THEN zeros ELSE zv

\* Fault: the trace of a terminal transition zeroed before the weights are
\* updated instead of after.
learn_reset_first(cb, wv, zv, obs, act, rew, obs_next, dn, act_next) ==
    LET qn == IF dn THEN [codebook |-> cb, q |-> 0, codewords |-> <<>>]
              ELSE get_q(cb, wv, obs_next, act_next)
        u == td_target(rew, dn, qn.q)
        e == IF dn THEN [codebook |-> cb, features |-> <<>>, codewords |-> <<>>]
             ELSE encode(qn.codebook, obs, act)
        z1 == IF dn THEN zv ELSE trace_replace(trace_decay(zv), e.features)
        q == get_q(e.codebook, wv, obs, act)
        delta == u - q.q
    IN  [codebook |-> q.codebook,
         w |-> weights_update(wv, delta, trace_reset(z1, dn)),
         z |-> trace_reset(z1, dn),
         codewords |-> qn.codewords \o e.codewords \o q.codewords]

\* Fault: the trace decayed and the features of (observation, action)
\* marked on the terminal transition as on any other.
learn_mark_terminal(cb, wv, zv, obs, act, rew, obs_next, dn, act_next) ==
    LET qn == IF dn THEN [codebook |-> cb, q |-> 0, codewords |-> <<>>]
              ELSE get_q(cb, wv, obs_next, act_next)
        u == td_target(rew, dn, qn.q)
        e == encode(qn.codebook, obs, act)
        z1 == trace_replace(trace_decay(zv), e.features)
        q == get_q(e.codebook, wv, obs, act)
        delta == u - q.q
    IN  [codebook |-> q.codebook,
         w |-> weights_update(wv, delta, z1),
         z |-> trace_reset(z1, dn),
         codewords |-> qn.codewords \o e.codewords \o q.codewords]

\* SARSALambdaAgent.learn on codebook cb, weights wv and trace zv
learn(cb, wv, zv, obs, act, rew, obs_next, dn, act_next) ==
    LET qn == IF dn THEN [codebook |-> cb, q |-> 0, codewords |-> <<>>]
              ELSE get_q(cb, wv, obs_next, act_next)
        u == td_target(rew, dn, qn.q)
        e == IF dn THEN [codebook |-> cb, features |-> <<>>, codewords |-> <<>>]
             ELSE encode(qn.codebook, obs, act)
        z1 == IF dn THEN zv ELSE trace_replace(trace_decay(zv), e.features)
        q == get_q(e.codebook, wv, obs, act)
        delta == u - q.q
    IN  [codebook |-> q.codebook,
         w |-> weights_update(wv, delta, z1),
         z |-> trace_reset(z1, dn),
         codewords |-> qn.codewords \o e.codewords \o q.codewords]

\* self.w[features] += (self.learning_rate * delta): an index listed more
\* than once is added to once
sarsa_weights_update(wv, delta, feats) ==
    [i \in Features |->
        IF i \in Range(feats) THEN wv[i] + Mul(learning_rate, delta) ELSE wv[i]]

\* SARSAAgent.learn on codebook cb and weights wv
sarsa_learn(cb, wv, obs, act, rew, obs_next, dn, act_next) ==
    LET qn == IF dn THEN [codebook |-> cb, q |-> 0, codewords |-> <<>>]
              ELSE get_q(cb, wv, obs_next, act_next)
        u == td_target(rew, dn, qn.q)
        q == get_q(qn.codebook, wv, obs, act)
        delta == u - q.q
        e == encode(q.codebook, obs, act)
    IN  [codebook |-> e.codebook,
         w |-> sarsa_weights_update(wv, delta, e.features),
         codewords |-> qn.codewords \o q.codewords \o e.codewords]

(***************************************************************************)
(* The state after construction.                                           *)
(***************************************************************************)
\* no call made yet, and the shape of the record of a call
no_call ==
    [op |-> "none", observation |-> <<>>, action |-> None, done |-> FALSE,
     action_next |-> None, ret |-> None, features |-> <<>>, raised |-> FALSE]

\* order after a call that looked up the codewords cws, in that order, and
\* took the codebook from cb to cb2: the codewords it added are appended
RECURSIVE inserted(_, _, _, _)
inserted(ord, cws, cb, cb2) ==
    IF cws = <<>> THEN ord
    ELSE IF /\ cws[1] \notin DOMAIN cb
            /\ cws[1] \in DOMAIN cb2
            /\ cws[1] \notin Range(ord)
         THEN inserted(Append(ord, cws[1]), Tail(cws), cb, cb2)
         ELSE inserted(ord, Tail(cws), cb, cb2)

\* the configurations explored.  The first is the notebook's training agent
\* (gamma = 1, lambd = 0.9, learning_rate = 0.03, epsilon = 0.001) at this
\* width; the second discounts and, as the notebook's test run does, has
\* epsilon = 0.
Configs ==
    { [gamma |-> One, lambd |-> Half, learning_rate |-> Half, epsilon |-> Half],
      [gamma |-> Half, lambd |-> Half, learning_rate |-> One, epsilon |-> 0] }

\* TileCoder.__init__, SARSAAgent.__init__, SARSALambdaAgent.__init__; the
\* episode loop is not running
Init ==
    /\ codebook = <<>>
    /\ w = zeros
    /\ z = zeros
    /\ \E c \in Configs :
        /\ gamma = c.gamma
        /\ lambd = c.lambd
        /\ learning_rate = c.learning_rate
        /\ epsilon = c.epsilon
    /\ call = no_call
    /\ order = <<>>
    /\ learns = 0
    /\ pc = "idle"
    /\ train = FALSE
    /\ observation = <<>>
    /\ action = None
    /\ reward = 0
    /\ observation_next = <<>>
    /\ done = FALSE
    /\ action_next = None
    /\ sarsa_codebook = <<>>
    /\ sarsa_w = zeros

(***************************************************************************)
(* Calls made on the agent directly.                                       *)
(***************************************************************************)
\* agent.encode(o, a)
EncodeCall ==
    \E o \in Observations, a \in Actions :
        \E r \in {encode(codebook, o, a)} :
            /\ codebook' = r.codebook
            /\ order' = inserted(order, r.codewords, codebook, r.codebook)
            /\ call' = [no_call EXCEPT !.op = "encode", !.observation = o,
                                       !.action = a, !.features = r.features]
            /\ UNCHANGED <<w, z, learns, config_vars, sarsa_vars, play_vars>>

\* agent.get_q(o, a)
GetQCall ==
    \E o \in Observations, a \in Actions :
        \E r \in {get_q(codebook, w, o, a)} :
            /\ codebook' = r.codebook
            /\ order' = inserted(order, r.codewords, codebook, r.codebook)
            /\ call' = [no_call EXCEPT !.op = "get_q", !.observation = o,
                                       !.action = a, !.ret = r.q]
            /\ UNCHANGED <<w, z, learns, config_vars, sarsa_vars, play_vars>>

\* the effect on the state of an agent.decide(o) that returned r
DoDecide(o, r) ==
    /\ codebook' = r.codebook
    /\ order' = inserted(order, r.codewords, codebook, r.codebook)
    /\ call' = [no_call EXCEPT !.op = "decide", !.observation = o,
                               !.ret = r.action]
    /\ UNCHANGED <<w, z, learns>>

\* agent.decide(o)
DecideCall ==
    \E o \in Observations, rand \in RandValues, randint \in Actions :
        \E r \in {decide(codebook, w, o, rand, randint)} :
            /\ DoDecide(o, r)
            /\ UNCHANGED <<config_vars, sarsa_vars, play_vars>>

\* the effect of agent.learn(o, a, rew, o2, dn, a2) on the state
DoLearn(o, a, rew, o2, dn, a2) ==
    /\ learns < MaxLearns
    /\ \E r \in {learn(codebook, w, z, o, a, rew, o2, dn, a2)} :
        /\ codebook' = r.codebook
        /\ order' = inserted(order, r.codewords, codebook, r.codebook)
        /\ w' = r.w
        /\ z' = r.z
    /\ learns' = learns + 1
    /\ call' = [no_call EXCEPT !.op = "learn", !.done = dn,
                               !.action_next = a2]

\* agent.learn as its caller is meant to call it: action_next given exactly
\* when the transition is not terminal
LearnCall ==
    \E o \in Observations, a \in Actions, rew \in Rewards,
       o2 \in Observations, dn \in BOOLEAN, a2 \in Actions \cup {None} :
        /\ dn <=> (a2 = None)
        /\ DoLearn(o, a, rew, o2, dn, a2)
        /\ UNCHANGED <<config_vars, sarsa_vars, play_vars>>

\* agent.learn called against that rule
LearnMisuse ==
    \E o \in Observations, a \in Actions, rew \in Rewards,
       o2 \in Observations, dn \in BOOLEAN, a2 \in Actions \cup {None} :
        /\ ~(dn <=> (a2 = None))
        /\ DoLearn(o, a, rew, o2, dn, a2)
        /\ UNCHANGED <<config_vars, sarsa_vars, play_vars>>

Next == EncodeCall \/ GetQCall \/ DecideCall \/ LearnCall

Spec == Init /\ [][Next]_vars

NextMisuse == Next \/ LearnMisuse

SpecMisuse == Init /\ [][NextMisuse]_vars

(***************************************************************************)
(* A SARSALambdaAgent with lambd = 0 and a SARSAAgent, built alike and     *)
(* given the same calls.                                                   *)
(***************************************************************************)
\* both agents constructed with the same parameters, lambd = 0
InitLambdaZero ==
    /\ codebook = <<>>
    /\ w = zeros
    /\ z = zeros
    /\ \E c \in Configs :
        /\ gamma = c.gamma
        /\ lambd = 0
        /\ learning_rate = c.learning_rate
        /\ epsilon = c.epsilon
    /\ call = no_call
    /\ order = <<>>
    /\ learns = 0
    /\ pc = "idle"
    /\ train = FALSE
    /\ observation = <<>>
    /\ action = None
    /\ reward = 0
    /\ observation_next = <<>>
    /\ done = FALSE
    /\ action_next = None
    /\ sarsa_codebook = <<>>
    /\ sarsa_w = zeros

\* encode(o, a) on both agents
BothEncode ==
    \E o \in Observations, a \in Actions :
        /\ \E r \in {encode(codebook, o, a)} :
            /\ codebook' = r.codebook
            /\ order' = inserted(order, r.codewords, codebook, r.codebook)
            /\ call' = [no_call EXCEPT !.op = "encode", !.observation = o,
                                       !.action = a, !.features = r.features]
        /\ sarsa_codebook' = encode(sarsa_codebook, o, a).codebook
        /\ UNCHANGED <<w, z, learns, sarsa_w, config_vars, play_vars>>

\* learn(o, a, rew, o2, dn, a2) on both agents
BothLearn ==
    \E o \in Observations, a \in Actions, rew \in Rewards,
       o2 \in Observations, dn \in BOOLEAN, a2 \in Actions \cup {None} :
        /\ dn <=> (a2 = None)
        /\ DoLearn(o, a, rew, o2, dn, a2)
        /\ \E r \in {sarsa_learn(sarsa_codebook, sarsa_w, o, a, rew, o2, dn, a2)} :
            /\ sarsa_codebook' = r.codebook
            /\ sarsa_w' = r.w
        /\ UNCHANGED <<config_vars, play_vars>>

NextLambdaZero == BothEncode \/ BothLearn

SpecLambdaZero == InitLambdaZero /\ [][NextLambdaZero]_vars

(***************************************************************************)
(* The TileCoder called directly, on any floats within [0., 1.].           *)
(***************************************************************************)
\* the fixed-point numbers of [0., 1.]
UnitFloats == 0 .. One

\* a TileCoder just constructed, and the floats it is to be called with
InitTileCoder ==
    /\ codebook = <<>>
    /\ w = zeros
    /\ z = zeros
    /\ \E c \in Configs :
        /\ gamma = c.gamma
        /\ lambd = c.lambd
        /\ learning_rate = c.learning_rate
        /\ epsilon = c.epsilon
    /\ \E f1 \in UnitFloats, f2 \in UnitFloats :
        call = [no_call EXCEPT !.observation = <<f1, f2>>]
    /\ order = <<>>
    /\ learns = 0
    /\ pc = "idle"
    /\ train = FALSE
    /\ observation = <<>>
    /\ action = None
    /\ reward = 0
    /\ observation_next = <<>>
    /\ done = FALSE
    /\ action_next = None
    /\ sarsa_codebook = <<>>
    /\ sarsa_w = zeros

\* encoder(floats, ints) with those floats and one int
TileCoderCall ==
    \E a \in Actions :
        \E r \in {tile_call(codebook, call.observation, <<a>>)} :
            /\ codebook' = r.codebook
            /\ order' = inserted(order, r.codewords, codebook, r.codebook)
            /\ call' = [call EXCEPT !.op = "tile", !.action = a,
                                    !.features = r.features]
            /\ UNCHANGED <<w, z, learns, config_vars, sarsa_vars, play_vars>>

SpecTileCoder == InitTileCoder /\ [][TileCoderCall]_vars

(***************************************************************************)
(* play_sarsa(env, agent, train): one episode.  The environment is any     *)
(* environment: reset and step return any observation, reward and done.    *)
(* episode_reward and render touch nothing of the agent and are left out.  *)
(***************************************************************************)
\* play_sarsa is called
PlayStart ==
    /\ pc = "idle"
    /\ train' \in BOOLEAN
    /\ pc' = "reset"
    /\ UNCHANGED <<agent_vars, config_vars, sarsa_vars, call, order, learns,
                   observation, action,
                   reward, observation_next, done, action_next>>

\* observation = env.reset()
PlayReset ==
    /\ pc = "reset"
    /\ observation' \in Observations
    /\ pc' = "decide"
    /\ UNCHANGED <<agent_vars, config_vars, sarsa_vars, call, order, learns, train, action,
                   reward, observation_next, done, action_next>>

\* action = agent.decide(observation)
PlayDecide ==
    /\ pc = "decide"
    /\ \E rand \in RandValues, randint \in Actions :
        \E r \in {decide(codebook, w, observation, rand, randint)} :
            /\ DoDecide(observation, r)
            /\ action' = r.action
    /\ pc' = "step"
    /\ UNCHANGED <<config_vars, sarsa_vars, train, observation, reward, observation_next,
                   done, action_next>>

\* observation_next, reward, done, _ = env.step(action)
PlayStep ==
    /\ pc = "step"
    /\ observation_next' \in Observations
    /\ reward' \in Rewards
    /\ done' \in BOOLEAN
    /\ pc' = IF done' THEN "terminal" ELSE "decide_next"
    /\ UNCHANGED <<agent_vars, config_vars, sarsa_vars, call, order, learns,
                   train, observation,
                   action, action_next>>

\* Fault: the terminal learn given the action_next of the step before.
PlayTerminalWithNext ==
    /\ pc = "terminal"
    /\ IF train
       THEN DoLearn(observation, action, reward, observation_next, done,
                    action_next)
       ELSE UNCHANGED <<agent_vars, call, order, learns>>
    /\ pc' = "idle"
    /\ observation' = <<>>
    /\ action' = None
    /\ reward' = 0
    /\ observation_next' = <<>>
    /\ done' = FALSE
    /\ action_next' = None
    /\ UNCHANGED <<config_vars, sarsa_vars, train>>

\* if done: learn without action_next when training, then break and return
PlayTerminal ==
    /\ pc = "terminal"
    /\ IF train
       THEN DoLearn(observation, action, reward, observation_next, done, None)
       ELSE UNCHANGED <<agent_vars, call, order, learns>>
    /\ pc' = "idle"
    /\ observation' = <<>>
    /\ action' = None
    /\ reward' = 0
    /\ observation_next' = <<>>
    /\ done' = FALSE
    /\ action_next' = None
    /\ UNCHANGED <<config_vars, sarsa_vars, train>>

\* action_next = agent.decide(observation_next)
PlayDecideNext ==
    /\ pc = "decide_next"
    /\ \E rand \in RandValues, randint \in Actions :
        \E r \in {decide(codebook, w, observation_next, rand, randint)} :
            /\ DoDecide(observation_next, r)
            /\ action_next' = r.action
    /\ pc' = "learn"
    /\ UNCHANGED <<config_vars, sarsa_vars, train, observation, action, reward,
                   observation_next, done>>

\* Fault: the learn call made whether train is set or not.
PlayLearnAlways ==
    /\ pc = "learn"
    /\ DoLearn(observation, action, reward, observation_next, done,
               action_next)
    /\ observation' = observation_next
    /\ action' = action_next
    /\ pc' = "step"
    /\ UNCHANGED <<config_vars, sarsa_vars, train, reward, observation_next,
                   done, action_next>>

\* Fault: the loop going on with the action of the step before, action_next
\* used for the learn call only.
PlayLearnKeepAction ==
    /\ pc = "learn"
    /\ IF train
       THEN DoLearn(observation, action, reward, observation_next, done,
                    action_next)
       ELSE UNCHANGED <<agent_vars, call, order, learns>>
    /\ observation' = observation_next
    /\ action' = action
    /\ pc' = "step"
    /\ UNCHANGED <<config_vars, sarsa_vars, train, reward, observation_next,
                   done, action_next>>

\* learn with action_next when training; then
\* observation, action = observation_next, action_next
PlayLearn ==
    /\ pc = "learn"
    /\ IF train
       THEN DoLearn(observation, action, reward, observation_next, done,
                    action_next)
       ELSE UNCHANGED <<agent_vars, call, order, learns>>
    /\ observation' = observation_next
    /\ action' = action_next
    /\ pc' = "step"
    /\ UNCHANGED <<config_vars, sarsa_vars, train, reward, observation_next, done,
                   action_next>>

NextPlay ==
    \/ PlayStart
    \/ PlayReset
    \/ PlayDecide
    \/ PlayStep
    \/ PlayTerminal
    \/ PlayDecideNext
    \/ PlayLearn

\* the notebook: episodes of play_sarsa on one agent, nothing else
SpecPlay == Init /\ [][NextPlay]_vars

\* agent.get_q and agent.decide called between two episodes
IdleGetQ == pc = "idle" /\ GetQCall

IdleDecide == pc = "idle" /\ DecideCall

NextPlayAndCalls == NextPlay \/ IdleGetQ \/ IdleDecide

\* episodes of play_sarsa, with get_q and decide calls in between
SpecPlayAndCalls == Init /\ [][NextPlayAndCalls]_vars

(***************************************************************************)
(* Properties.                                                             *)
(***************************************************************************)
\* len(self.codebook)
Count == Cardinality(DOMAIN codebook)

\* the feature a codeword resolves to in codebook cb: its entry, or its hash
\* folded into the table when it has none
Resolved(cb, codeword) ==
    IF codeword \in DOMAIN cb THEN cb[codeword] ELSE hash(codeword) % features

\* the codewords of (o, a), by layer
CodewordsOf(o, a) ==
    [j \in 1 .. layers |-> codeword_of(j - 1, normalize(o), <<a>>)]

\* the number of times feature i is listed in feats
Times(i, feats) == Cardinality({j \in 1 .. Len(feats) : feats[j] = i})

\* sum of m(i) * wv[i] over the features i < n
RECURSIVE WeightedSum(_, _, _)
WeightedSum(wv, feats, n) ==
    IF n = 0 THEN 0
    ELSE Times(n - 1, feats) * wv[n - 1] + WeightedSum(wv, feats, n - 1)

\* a is the lowest action that maximizes q, a function on Actions
LowestMax(a, q) ==
    /\ \A b \in Actions : q[b] <= q[a]
    /\ \A b \in Actions : b < a => q[b] < q[a]

\* C1: after a learn call with done = true, every entry of z is 0.
C1_TraceZeroAfterTerminal ==
    (call.op = "learn" /\ call.done) => \A i \in Features : z[i] = 0

\* a terminal learn that followed a learn which left a trace and moved w
C1_Witness ==
    /\ call.op = "learn"
    /\ call.done
    /\ learns = 2
    /\ w # zeros
    /\ z = zeros

\* C2: with gamma >= 0 and 0 <= lambd <= 1, z[i] >= 0 for every i, in every
\* state reached by encode, get_q, decide and learn calls.
C2_TraceNonNegative ==
    (gamma >= 0 /\ lambd >= 0 /\ lambd <= One)
        => \A i \in Features : z[i] >= 0

\* a learn left a decayed trace, strictly between 0 and 1
C2_Witness ==
    /\ call.op = "learn"
    /\ \E i \in Features : z[i] > 0 /\ z[i] < One

\* C3: the codebook never holds more than features entries, no call removes
\* an entry, and a call made on a full codebook leaves it as it is.
C3_CodebookCapped ==
    /\ [](Count <= features)
    /\ [][/\ Count <= Count'
          /\ \A cw \in DOMAIN codebook : cw \in DOMAIN codebook'
          /\ Count = features => codebook' = codebook]_vars

\* an encode looked up, on a full codebook, a codeword that has no entry
C3_Witness ==
    /\ call.op = "encode"
    /\ Count = features
    /\ \E j \in 1 .. layers :
        CodewordsOf(call.observation, call.action)[j] \notin DOMAIN codebook

\* C4: a codeword keeps the index it was inserted with through every later
\* call, a lookup of it returns that index, and the k-th codeword inserted
\* (from 0) has index k.
C4_IndexStableFirstCome ==
    /\ [](/\ Len(order) = Count
          /\ \A k \in 1 .. Len(order) :
                /\ order[k] \in DOMAIN codebook
                /\ codebook[order[k]] = k - 1)
    /\ [][\A cw \in DOMAIN codebook :
            /\ cw \in DOMAIN codebook'
            /\ codebook'[cw] = codebook[cw]
            /\ get_feature(codebook', cw).feature = codebook[cw]]_vars

\* an encode, made when the codebook was full, found the first codeword
\* ever inserted and returned index 0 for it
C4_Witness ==
    /\ call.op = "encode"
    /\ Count = features
    /\ order[1] = CodewordsOf(call.observation, call.action)[1]
    /\ call.features[1] = 0

\* C5: encode returns exactly layers indices, the j-th the index resolved
\* for the codeword of layer j: for every input, in every table state, and
\* for the encode calls made.
C5_EncodeLayersIndices ==
    /\ \A o \in Observations, a \in Actions :
        LET r == encode(codebook, o, a)
        IN  /\ Len(r.features) = layers
            /\ \A j \in 1 .. layers :
                r.features[j] = Resolved(r.codebook, CodewordsOf(o, a)[j])
    /\ call.op = "encode" =>
        /\ Len(call.features) = layers
        /\ \A j \in 1 .. layers :
            call.features[j] =
                Resolved(codebook, CodewordsOf(call.observation, call.action)[j])

\* an encode on a full codebook returned one index for two layers
C5_Witness ==
    /\ call.op = "encode"
    /\ Count = features
    /\ Len(call.features) = layers
    /\ call.features[1] = call.features[2]

\* C6: get_q(o, a) is the sum of w over the indices encode returns for
\* (o, a) in the table state after the call, an index listed m times
\* counting m times.
C6_ValueIsSumOfWeights ==
    /\ \A o \in Observations, a \in Actions :
        LET r == get_q(codebook, w, o, a)
            feats == encode(r.codebook, o, a).features
        IN  r.q = WeightedSum(w, feats, features)
    /\ call.op = "get_q" =>
        call.ret = WeightedSum(
            w, encode(codebook, call.observation, call.action).features,
            features)

\* a get_q returned a value other than 0 for an encoding that lists one
\* index twice
C6_Witness ==
    /\ call.op = "get_q"
    /\ call.ret # 0
    /\ LET feats == encode(codebook, call.observation, call.action).features
       IN  /\ feats[1] = feats[2]
           /\ w[feats[1]] # 0

\* C7: with epsilon = 0, decide does not explore and returns the lowest
\* action among those with the greatest get_q; on weights all zero it
\* returns action 0.
C7_GreedyLowestMax ==
    epsilon = 0 =>
        /\ \A o \in Observations, rand \in RandValues, randint \in Actions :
            LET r == decide(codebook, w, o, rand, randint)
                q == [a \in Actions |-> get_q(r.codebook, w, o, a).q]
            IN  /\ ~r.explored
                /\ LowestMax(r.action, q)
                /\ w = zeros => r.action = 0
        /\ call.op = "decide" =>
            /\ LowestMax(call.ret,
                         [a \in Actions |->
                            get_q(codebook, w, call.observation, a).q])
            /\ w = zeros => call.ret = 0

\* a decide with epsilon = 0 returned action 1, action 0 being worse
C7_Witness ==
    /\ epsilon = 0
    /\ call.op = "decide"
    /\ call.ret = 1
    /\ get_q(codebook, w, call.observation, 0).q
         < get_q(codebook, w, call.observation, 1).q

\* C8: every learn call play_sarsa makes passes action_next exactly when
\* done is false; the action then passed is the one the decide just made
\* on observation_next returned.
C8_NextActionIffNotDone ==
    [][learns' # learns =>
        /\ call'.op = "learn"
        /\ call'.done = done
        /\ call'.done <=> (call'.action_next = None)
        /\ ~call'.done =>
            /\ call.op = "decide"
            /\ call.observation = observation_next
            /\ call'.action_next = call.ret
            /\ call'.action_next \in Actions]_vars

\* the loop made its terminal learn after a learn that passed action_next
C8_Witness ==
    /\ pc = "idle"
    /\ call.op = "learn"
    /\ call.done
    /\ call.action_next = None
    /\ learns = 2

\* C9: a learn call with done = false and no action_next, or with
\* done = true and an action_next, raises an error and leaves the codebook,
\* w and z unchanged.
C9_MisuseRejected ==
    [][(learns' # learns /\ ~(call'.done <=> (call'.action_next = None)))
        => (call'.raised /\ UNCHANGED <<codebook, w, z>>)]_vars

\* C10: whenever play_sarsa is about to call env.reset, z is all zeros.
C10_TraceZeroAtReset ==
    pc = "reset" => \A i \in Features : z[i] = 0

\* an episode starts after an episode that trained
C10_Witness ==
    /\ pc = "reset"
    /\ learns = 2
    /\ w # zeros
    /\ z = zeros

\* C11: encoding the same input twice in a row returns the same indices both
\* times and the second call adds no entry to the codebook: for every input
\* in every table state (empty, partly filled, filling up during the first
\* call), and for every encode call that repeats the call before it.
C11_EncodeTwiceSame ==
    /\ [](\A o \in Observations, a \in Actions :
            LET first == encode(codebook, o, a)
                second == encode(first.codebook, o, a)
            IN  /\ second.features = first.features
                /\ second.codebook = first.codebook)
    /\ [][(/\ call.op = "encode"
           /\ call'.op = "encode"
           /\ call'.observation = call.observation
           /\ call'.action = call.action)
          => (call'.features = call.features /\ codebook' = codebook)]_vars

\* an encode whose layer-0 codeword took the last free index and whose
\* layer-1 codeword found the codebook full; encoding again gives the same
C11_Witness ==
    /\ call.op = "encode"
    /\ Count = features
    /\ order[features] = CodewordsOf(call.observation, call.action)[1]
    /\ CodewordsOf(call.observation, call.action)[2] \notin DOMAIN codebook
    /\ call.features[1] = features - 1
    /\ encode(codebook, call.observation, call.action).features = call.features

\* the codewords the agent can look up: those of every observation and
\* action, by layer
AllCodewords ==
    {CodewordsOf(o, a)[j] : o \in Observations, a \in Actions, j \in 1 .. layers}

\* C12: on a codebook that holds features entries, get_feature of a codeword
\* without an entry leaves the codebook as it is and returns
\* hash(codeword) mod features, an index of the table (so the index of some
\* entry); and every index encode returns is an index of the table.
C12_HashFallbackInRange ==
    /\ Count = features =>
        \A cw \in AllCodewords \ DOMAIN codebook :
            LET r == get_feature(codebook, cw)
            IN  /\ r.codebook = codebook
                /\ r.feature = hash(cw) % features
                /\ r.feature >= 0
                /\ r.feature < features
    /\ \A o \in Observations, a \in Actions :
        \A j \in 1 .. layers :
            encode(codebook, o, a).features[j] \in Features
    /\ call.op = "encode" =>
        \A j \in 1 .. Len(call.features) : call.features[j] \in Features

\* an encode on a full codebook resolved a codeword of negative hash
\* through the fallback, to the index an entry of the codebook has
C12_Witness ==
    /\ call.op = "encode"
    /\ Count = features
    /\ LET cw == CodewordsOf(call.observation, call.action)[2]
       IN  /\ cw \notin DOMAIN codebook
           /\ hash(cw) < 0
           /\ call.features[2] = hash(cw) % features
           /\ \E cw2 \in DOMAIN codebook : codebook[cw2] = call.features[2]

\* the trace the claim states for a learn with done = false that started
\* from trace zv and whose (observation, action) encodes to feats
TraceAfter(zv, feats) ==
    [i \in Features |->
        IF i \in Range(feats) THEN One ELSE Mul(Mul(gamma, lambd), zv[i])]

\* C13: after a learn with done = false, z[i] = 1 for every index i of the
\* encoding of (observation, action), an index listed twice included, and
\* z[i] = gamma * lambd * z_before[i] for every other i: for every input in
\* every state, and for the learn calls made.
C13_TraceDecayReplace ==
    /\ [](\A o \in Observations, a \in Actions, rew \in Rewards,
             o2 \in Observations, a2 \in Actions :
            \A r \in {learn(codebook, w, z, o, a, rew, o2, FALSE, a2)} :
                /\ r.z = TraceAfter(z, encode(r.codebook, o, a).features)
                /\ \A i \in Features : r.z[i] <= One)
    /\ [][(learns' # learns /\ ~call'.done) =>
            \E o \in Observations, a \in Actions :
                z' = TraceAfter(z, encode(codebook', o, a).features)]_vars

\* a second learn with done = false left trace 1 at an index its encoding
\* lists twice and a decayed trace, left by the first learn, at another
C13_Witness ==
    /\ call.op = "learn"
    /\ ~call.done
    /\ learns = 2
    /\ \E o \in Observations, a \in Actions :
        LET feats == encode(codebook, o, a).features
        IN  /\ feats[1] = feats[2]
            /\ z[feats[1]] = One
            /\ \E i \in Features \ Range(feats) : z[i] > 0 /\ z[i] < One

\* the weights the claim states for a learn with done = false: cb is the
\* table and zn the trace after the call, both values taken from wv
WeightsAfter(cb, wv, zn, o, a, rew, o2, a2) ==
    LET delta == rew + Mul(gamma, get_q(cb, wv, o2, a2).q) - get_q(cb, wv, o, a).q
    IN  [i \in Features |-> wv[i] + Mul(Mul(learning_rate, delta), zn[i])]

\* C14: a learn with done = false takes every weight, active or not, to
\* w[i] + learning_rate * delta * z_new[i], where z_new is the trace after
\* the call and delta = reward + gamma * Q(next) - Q(current), both values
\* computed from the weights before the call.
C14_WeightUpdateNonTerminal ==
    /\ [](\A o \in Observations, a \in Actions, rew \in Rewards,
             o2 \in Observations, a2 \in Actions :
            \A r \in {learn(codebook, w, z, o, a, rew, o2, FALSE, a2)} :
                r.w = WeightsAfter(r.codebook, w, r.z, o, a, rew, o2, a2))
    /\ [][(learns' # learns /\ ~call'.done) =>
            \E o \in Observations, a \in Actions, rew \in Rewards,
               o2 \in Observations, a2 \in Actions :
                w' = WeightsAfter(codebook', w, z', o, a, rew, o2, a2)]_vars

\* a second learn with done = false moved the weight of a feature whose
\* trace had decayed: the first learn leaves only 0 and +-learning_rate
C14_Witness ==
    /\ call.op = "learn"
    /\ ~call.done
    /\ learns = 2
    /\ \E i \in Features :
        /\ z[i] > 0
        /\ z[i] < One
        /\ w[i] \notin {0, learning_rate, 0 - learning_rate}
    /\ \E j \in Features : z[j] = One /\ w[j] # 0

\* the weights the claim states for a learn with done = true that started
\* from weights wv and trace zv; cb is the table after the call
TerminalWeightsAfter(cb, wv, zv, o, a, rew) ==
    LET delta == rew - get_q(cb, wv, o, a).q
    IN  [i \in Features |-> wv[i] + Mul(Mul(learning_rate, delta), zv[i])]

\* C15: a learn with done = true has target u = reward, leaves the trace
\* undecayed and the features of (observation, action) unmarked, takes w to
\* w + learning_rate * (reward - Q(observation, action)) * z_before, and
\* ends with z all zero.
C15_TerminalUpdate ==
    /\ [](\A o \in Observations, a \in Actions, rew \in Rewards,
             o2 \in Observations :
            \A r \in {learn(codebook, w, z, o, a, rew, o2, TRUE, None)} :
                /\ r.w = TerminalWeightsAfter(r.codebook, w, z, o, a, rew)
                /\ r.z = zeros)
    /\ [][(learns' # learns /\ call'.done) =>
            /\ z' = zeros
            /\ \E o \in Observations, a \in Actions, rew \in Rewards :
                w' = TerminalWeightsAfter(codebook', w, z, o, a, rew)]_vars

\* a terminal learn, made on the trace the learn before it left, moved a
\* weight off the values 0 and +-learning_rate that learn had given
C15_Witness ==
    /\ call.op = "learn"
    /\ call.done
    /\ learns = 2
    /\ z = zeros
    /\ \E i \in Features : w[i] \notin {0, learning_rate, 0 - learning_rate}

\* C16: a SARSALambdaAgent with lambd = 0 and a SARSAAgent, started alike
\* and given the same learn calls, terminal ones included, hold the same
\* weights after every call.
C16_LambdaZeroIsSarsa ==
    lambd = 0 => (sarsa_w = w /\ sarsa_codebook = codebook)

\* the codeword the claim states for layer l (from 0): the layer, then
\* floor((v_i * layers^2 + (1 + dim * i) * l) / layers) for the i-th float
\* (from 0), then the ints
FloorCodeword(l, floats, ints) ==
    LET dim == Len(floats)
    IN  <<l>>
        \o [i \in 1 .. dim |->
              (floats[i] * layers * layers + (1 + dim * (i - 1)) * l * One)
                  \div (layers * One)]
        \o ints

\* C17: for every layer and every floats within [0, 1] the TileCoder is
\* called with, the codeword is the layer, the floor of
\* (v_i * layers^2 + (1 + dim * i) * layer) / layers for each float, and the
\* ints as given; int() truncates where the claim floors, and the two
\* agree.  The codeword the call stores is that one.
C17_CodewordIsFloor ==
    call.op = "tile" =>
        \A j \in 1 .. layers :
            LET cw == FloorCodeword(j - 1, call.observation, <<call.action>>)
            IN  /\ codeword_of(j - 1, call.observation, <<call.action>>) = cw
                /\ Count < features => cw \in DOMAIN codebook
                /\ cw \in DOMAIN codebook => codebook[cw] = call.features[j]

\* a call stored, for layer 1, a codeword whose second coordinate is a
\* quotient that is not whole, the offset 1 + dim having carried it up
C17_Witness ==
    /\ call.op = "tile"
    /\ LET f == call.observation[2] * layers * layers
           cw == FloorCodeword(1, call.observation, <<call.action>>)
       IN  /\ (f + 3 * One) % (layers * One) # 0
           /\ cw[3] > f \div (layers * One)
           /\ cw \in DOMAIN codebook
           /\ codebook[cw] = call.features[2]

\* C18: the codebook maps its n entries one-to-one onto 0 .. n-1; so two
\* indices of the encodings of one observation, taken at different layers
\* or under different actions, differ whenever both codewords have an
\* entry: an index is repeated within an encoding, or shared across
\* actions, only through the hash fallback.
C18_CodebookOneToOne ==
    /\ \A cw1 \in DOMAIN codebook, cw2 \in DOMAIN codebook :
        cw1 # cw2 => codebook[cw1] # codebook[cw2]
    /\ {codebook[cw] : cw \in DOMAIN codebook} = 0 .. (Count - 1)
    /\ \A o \in Observations, a \in Actions, b \in Actions :
        LET ea == encode(codebook, o, a)
            eb == encode(ea.codebook, o, b)
        IN  \A j \in 1 .. layers, k \in 1 .. layers :
                (/\ a # b \/ j # k
                 /\ CodewordsOf(o, a)[j] \in DOMAIN eb.codebook
                 /\ CodewordsOf(o, b)[k] \in DOMAIN eb.codebook)
                => ea.features[j] # eb.features[k]
    /\ call.op = "encode" =>
        \A j \in 1 .. layers, k \in 1 .. layers :
            (/\ j # k
             /\ CodewordsOf(call.observation, call.action)[j] \in DOMAIN codebook
             /\ CodewordsOf(call.observation, call.action)[k] \in DOMAIN codebook)
            => call.features[j] # call.features[k]

\* an encode returned distinct indices through entries of the full
\* codebook, and the same observation under another action shares one of
\* them through the hash of a codeword that has no entry
C18_Witness ==
    /\ call.op = "encode"
    /\ Count = features
    /\ \A j \in 1 .. layers :
        CodewordsOf(call.observation, call.action)[j] \in DOMAIN codebook
    /\ call.features[1] # call.features[2]
    /\ \E b \in Actions \ {call.action}, k \in 1 .. layers :
        /\ CodewordsOf(call.observation, b)[k] \notin DOMAIN codebook
        /\ encode(codebook, call.observation, b).features[k]
             \in Range(call.features)

\* C19: a decide or a get_q call leaves w and z as they are, whatever it
\* does to the codebook; and no step of an episode run with train = False
\* changes w or z.
C19_DecideGetQKeepWeights ==
    [][/\ call'.op \in {"decide", "get_q"} => (w' = w /\ z' = z)
       /\ (pc # "idle" /\ ~train) => (w' = w /\ z' = z)]_vars

\* an episode run with train = False on a trained agent has passed the
\* place of the learn call, its decide calls made, and goes on
C19_Witness ==
    /\ pc = "step"
    /\ ~train
    /\ call.op = "decide"
    /\ action_next \in Actions
    /\ action = action_next
    /\ learns = 2
    /\ w # zeros
    /\ Count = features

\* C20: a learn with done = true made while z is all zeros leaves every
\* entry of w as it is, for any reward, observation and action: in every
\* state where z is zero, and for the learn calls made.
C20_TerminalOnZeroTraceKeepsWeights ==
    /\ [](z = zeros =>
            \A o \in Observations, a \in Actions, rew \in Rewards,
               o2 \in Observations :
                learn(codebook, w, z, o, a, rew, o2, TRUE, None).w = w)
    /\ [][(learns' # learns /\ call'.done /\ z = zeros) => w' = w]_vars

\* the first learn after construction was terminal: the codebook has the
\* entries of its (observation, action), the reward was not 0, the value
\* was, and w is still all zeros
C20_Witness ==
    /\ call.op = "learn"
    /\ call.done
    /\ learns = 1
    /\ Count > 0
    /\ w = zeros
    /\ z = zeros

\* the agent after learn on the transition play_sarsa holds, with next
\* action a2
LearnedTransition(a2) ==
    \E r \in {learn(codebook, w, z, observation, action, reward,
                     observation_next, done, a2)} :
        /\ codebook' = r.codebook
        /\ w' = r.w
        /\ z' = r.z

\* C21: in play_sarsa with train = True, whatever the environment returns:
\* env.step makes no learn call and is followed, when it reports done, by
\* one learn call for its transition and the return, no decide in between,
\* and otherwise by one decide(observation_next) and then one learn call
\* for its transition before the next env.step; the action_next given to
\* that learn call is the action the next env.step is called with.
C21_StepThenOneLearnOnPolicy ==
    [][train =>
        /\ pc = "step" =>
            /\ learns' = learns
            /\ call' = call
            /\ pc' = IF done' THEN "terminal" ELSE "decide_next"
        /\ pc = "terminal" =>
            /\ done
            /\ learns' = learns + 1
            /\ call'.op = "learn"
            /\ call'.done
            /\ call'.action_next = None
            /\ LearnedTransition(None)
            /\ pc' = "idle"
        /\ pc = "decide_next" =>
            /\ ~done
            /\ learns' = learns
            /\ call'.op = "decide"
            /\ call'.observation = observation_next
            /\ action_next' = call'.ret
            /\ pc' = "learn"
        /\ pc = "learn" =>
            /\ ~done
            /\ learns' = learns + 1
            /\ call'.op = "learn"
            /\ ~call'.done
            /\ call'.action_next = action_next
            /\ LearnedTransition(action_next)
            /\ pc' = "step"
            /\ action' = call'.action_next
            /\ observation' = observation_next]_vars

\* a training episode made its first learn call, with action_next = 1, and
\* is about to call env.step with action 1 on the observation that was next
C21_Witness ==
    /\ pc = "step"
    /\ train
    /\ learns = 1
    /\ call.op = "learn"
    /\ ~call.done
    /\ call.action_next = 1
    /\ action = 1
    /\ observation = observation_next
    /\ w # zeros

====
